---------------------------- MODULE Spec2Model ----------------------------
(***************************************************************************)
(* Model of the ohlcv library: time-bucket arithmetic (Timeframe),         *)
(* candle aggregation (Candle::merge) and the schema lifecycle of the      *)
(* three database backends (init_schema / drop_schema).                    *)
(*                                                                         *)
(* Four specifications share the module:                                   *)
(*   SpecTime   calls of Timeframe::round_down / round_up / range          *)
(*   SpecMerge  calls of Candle::merge on bounded candle sequences         *)
(*   Spec       sequences of init_schema / drop_schema calls on a backend, *)
(*              made through the library or the init / drop commands       *)
(*   SpecValue  calls of Credentials::new / try_from, of the comparisons   *)
(*              of Candle and of Coin::table_name                          *)
(***************************************************************************)
EXTENDS Integers, Sequences, FiniteSets, TLC

VARIABLES
    tcall,      \* the last Timeframe call: operation, arguments and result
    candles,    \* the sequence of candles handed to Candle::merge
    merged,     \* the outcome of Candle::merge on `candles`
    mcall,      \* a further merge call on candles derived from `candles`
    config,     \* the DbType value: the backend variant and its DbConfig fields
    env,        \* the process environment: variable name -> value
    dbfile,     \* whether the database (for SQLite: its file) exists
    pool,       \* DbConfig.pool: Some(pool) once cached, None before
    tables,     \* the names of the tables in the configured database/schema
    last,       \* the last init_schema/drop_schema call, its log and result
    vcall       \* the last call of SpecValue: operation, arguments, result

vars == <<tcall, candles, merged, mcall, config, env, dbfile, pool, tables, last, vcall>>

timeVars  == <<tcall>>
mergeVars == <<candles, merged, mcall>>
dbVars    == <<config, env, dbfile, pool, tables, last>>
valueVars == <<vcall>>

\* The values the variables of the other parts keep while one part runs.
IdleTime  == tcall = [op |-> "none"]
IdleMerge ==
    /\ candles = <<>>
    /\ merged = [kind |-> "NotCalled"]
    /\ mcall = [op |-> "none"]
IdleDb ==
    /\ config = [variant |-> "none"]
    /\ env = <<>>
    /\ dbfile = FALSE
    /\ pool = [some |-> FALSE]
    /\ tables = {}
    /\ last = [op |-> "none"]
IdleValue == vcall = [op |-> "none"]

(***************************************************************************)
(* basetypes.rs: Timeframe                                                 *)
(***************************************************************************)

\* Bounds of the instants the time specification draws: every bucket start
\* w * k for k in -MaxBucket..MaxBucket of every width w, and the instants
\* up to MaxOffset seconds before and after it.
MaxBucket == 1
MaxOffset == 1

Timeframes == {"FiveMinutes", "Quarters", "OneHour", "FourHours", "OneDay"}

DURATION_5M == 5 * 60
DURATION_15M == 15 * 60
DURATION_1H == 60 * 60
DURATION_4H == 4 * 60 * 60
DURATION_1D == 24 * 60 * 60

\* OffsetDateTime::UNIX_EPOCH as a Unix timestamp (seconds).
UNIX_EPOCH == 0

\* duration with a four-hour width of five hours, which no longer divides a
\* day.
duration_uneven(tf) ==
    CASE tf = "FiveMinutes" -> DURATION_5M
      [] tf = "Quarters"    -> DURATION_15M
      [] tf = "OneHour"     -> DURATION_1H
      [] tf = "FourHours"   -> 5 * 60 * 60
      [] tf = "OneDay"      -> DURATION_1D

duration(tf) ==
    CASE tf = "FiveMinutes" -> DURATION_5M
      [] tf = "Quarters"    -> DURATION_15M
      [] tf = "OneHour"     -> DURATION_1H
      [] tf = "FourHours"   -> DURATION_4H
      [] tf = "OneDay"      -> DURATION_1D

\* i64::rem_euclid with a positive divisor: the remainder in 0..rhs-1.
rem_euclid(lhs, rhs) == lhs % rhs

\* round_down with the truncating remainder `%` in place of rem_euclid.
round_down_trunc(tf, time) ==
    LET d       == duration(tf)
        seconds == time
        rem     == IF seconds >= 0 THEN seconds % d ELSE -((-seconds) % d)
    IN  seconds - rem

\* An instant is its Unix timestamp; unix_timestamp() and
\* from_unix_timestamp() are inverse on the instants drawn here, which all
\* lie well inside the range OffsetDateTime represents.
round_down(tf, time) ==
    LET d       == duration(tf)
        seconds == time
    IN  seconds - rem_euclid(seconds, d)

\* round_up adding the width only when the remainder is not zero, and then
\* forgetting to subtract the remainder.
round_up_keep_rem(tf, time) ==
    LET d       == duration(tf)
        seconds == time
    IN  IF rem_euclid(seconds, d) = 0 THEN seconds + d ELSE seconds + d + d

round_up(tf, time) ==
    LET d       == duration(tf)
        seconds == time
    IN  seconds + d - rem_euclid(seconds, d)

\* A std::ops::Bound over instants.
Included(t) == [kind |-> "Included", time |-> t]
Excluded(t) == [kind |-> "Excluded", time |-> t]
Unbounded   == [kind |-> "Unbounded", time |-> UNIX_EPOCH]

\* range with the end bound rounded like a start bound.
range_end_as_start(tf, start_bound, end_bound, now) ==
    LET start == CASE start_bound.kind = "Included"  -> round_down(tf, start_bound.time)
                   [] start_bound.kind = "Excluded"  -> round_up(tf, start_bound.time)
                   [] start_bound.kind = "Unbounded" -> UNIX_EPOCH
        end   == CASE end_bound.kind = "Included"  -> round_down(tf, end_bound.time)
                   [] end_bound.kind = "Excluded"  -> round_up(tf, end_bound.time)
                   [] end_bound.kind = "Unbounded" -> round_down(tf, now)
    IN  <<start, end>>

\* Timeframe::range; `now` is the value OffsetDateTime::now_utc() returns.
range(tf, start_bound, end_bound, now) ==
    LET start == CASE start_bound.kind = "Included"  -> round_down(tf, start_bound.time)
                   [] start_bound.kind = "Excluded"  -> round_up(tf, start_bound.time)
                   [] start_bound.kind = "Unbounded" -> UNIX_EPOCH
        end   == CASE end_bound.kind = "Included"  -> round_up(tf, end_bound.time)
                   [] end_bound.kind = "Excluded"  -> round_down(tf, end_bound.time)
                   [] end_bound.kind = "Unbounded" -> round_down(tf, now)
    IN  <<start, end>>

Widths == {duration(tf) : tf \in Timeframes}

Instants ==
    {w * k + d : w \in Widths, k \in -MaxBucket..MaxBucket, d \in -MaxOffset..MaxOffset}

\* The clock readings offered to range(): a bucket start, an instant inside
\* a bucket and an instant before the epoch.
Clock == {DURATION_1D, DURATION_5M + 1, -1}

Bounds == {Unbounded} \cup {Included(t) : t \in Instants} \cup {Excluded(t) : t \in Instants}

NoCall == [op |-> "none"]

RoundDown ==
    /\ tcall = NoCall
    /\ \E tf \in Timeframes, t \in Instants :
          tcall' = [op |-> "round_down", tf |-> tf, time |-> t,
                    result |-> round_down(tf, t)]
    /\ UNCHANGED <<mergeVars, dbVars, valueVars>>

RoundUp ==
    /\ tcall = NoCall
    /\ \E tf \in Timeframes, t \in Instants :
          tcall' = [op |-> "round_up", tf |-> tf, time |-> t,
                    result |-> round_up(tf, t)]
    /\ UNCHANGED <<mergeVars, dbVars, valueVars>>

Range ==
    /\ tcall = NoCall
    /\ \E tf \in Timeframes, sb \in Bounds, eb \in Bounds, now \in Clock :
          tcall' = [op |-> "range", tf |-> tf, start |-> sb, end |-> eb, now |-> now,
                    result |-> range(tf, sb, eb, now)]
    /\ UNCHANGED <<mergeVars, dbVars, valueVars>>

InitTime ==
    /\ tcall = NoCall
    /\ IdleMerge
    /\ IdleDb
    /\ IdleValue

NextTime ==
    \/ RoundDown
    \/ RoundUp
    \/ Range

SpecTime == InitTime /\ [][NextTime]_vars

(***************************************************************************)
(* rust_decimal::Decimal, as far as Candle::merge uses it                  *)
(*                                                                         *)
(* A Decimal is modelled as the exact rational (max * MAX + num) / den,    *)
(* where MAX stands for Decimal::MAX (2^96 - 1), den > 0 and the three     *)
(* integers have no common divisor.  MAX is kept symbolic because it       *)
(* exceeds every number the model otherwise handles; the rounding of a     *)
(* quotient to 28 fractional digits is not modelled.                       *)
(***************************************************************************)

Abs(n) == IF n < 0 THEN -n ELSE n

RECURSIVE Gcd(_, _)
Gcd(a, b) == IF b = 0 THEN a ELSE Gcd(b, a % b)

Normalize(max, num, den) ==
    LET g == Gcd(Gcd(Abs(max), Abs(num)), den)
    IN  [max |-> max \div g, num |-> num \div g, den |-> den \div g]

Dec(n) == [max |-> 0, num |-> n, den |-> 1]

Decimal_ZERO == Dec(0)
Decimal_MAX  == [max |-> 1, num |-> 0, den |-> 1]

DecIsZero(a) == a.max = 0 /\ a.num = 0

\* |a| exceeds Decimal::MAX by half a unit or more, so that no rounding of
\* the scale brings the value back into the 96-bit mantissa.
DecOverflows(a) ==
    \/ Abs(a.max) > a.den
    \/ a.max = a.den /\ 2 * a.num >= a.den
    \/ a.max = -a.den /\ -2 * a.num >= a.den

\* The result of a checked operation: a value, or the panic the unchecked
\* operator (`+`, `*`, `/`) raises instead.
Val(a)     == [ok |-> TRUE, v |-> a, panic |-> ""]
Panics(m)  == [ok |-> FALSE, v |-> Decimal_ZERO, panic |-> m]

\* A value within half a unit above MAX is rounded to MAX itself.
DecClamp(a) ==
    IF a.max = a.den /\ a.num > 0 THEN Decimal_MAX
    ELSE IF a.max = -a.den /\ a.num < 0 THEN [max |-> -1, num |-> 0, den |-> 1]
    ELSE a

\* impl Add for Decimal: panics with "Addition overflowed".
DecAdd(a, b) ==
    LET r == Normalize(a.max * b.den + b.max * a.den,
                       a.num * b.den + b.num * a.den,
                       a.den * b.den)
    IN  IF DecOverflows(r) THEN Panics("Addition overflowed") ELSE Val(DecClamp(r))

\* impl Mul for Decimal: panics with "Multiplication overflowed".  The
\* product of two values that both carry a MAX term always overflows.
DecMul(a, b) ==
    IF a.max # 0 /\ b.max # 0 THEN Panics("Multiplication overflowed")
    ELSE LET r == Normalize(a.max * b.num + b.max * a.num,
                            a.num * b.num,
                            a.den * b.den)
         IN  IF DecOverflows(r) THEN Panics("Multiplication overflowed")
             ELSE Val(DecClamp(r))

\* impl Div for Decimal: panics with "Division by zero" when the divisor is
\* zero, whatever the dividend.  Divisors here never carry a MAX term (a
\* volume is a sum of input volumes).
DecDiv(a, b) ==
    IF DecIsZero(b) THEN Panics("Division by zero")
    ELSE LET sign == IF b.num < 0 THEN -1 ELSE 1
             r == Normalize(sign * a.max * b.den,
                            sign * a.num * b.den,
                            a.den * Abs(b.num))
         IN  IF DecOverflows(r) THEN Panics("Division overflowed") ELSE Val(DecClamp(r))

(***************************************************************************)
(* candle.rs: Candle and Candle::merge                                     *)
(***************************************************************************)

\* Bounds of the candles the merge specification draws.
MaxCandles == 2     \* length of the sequence handed to merge
MaxStamp   == 1     \* timestamps are the bucket starts 0, 300, .., 300 * MaxStamp
MaxSources == 2     \* sources counters 1..MaxSources
MaxPrice   == 1     \* prices -MaxPrice..MaxPrice
MaxVolume  == 2     \* volumes 0..MaxVolume

None       == [some |-> FALSE]
Some(x)    == [some |-> TRUE, value |-> x]

\* Outcomes of a call: Ok(candle), Err(error) or a panic that unwinds out
\* of the call.
Ok(c)      == [kind |-> "Ok", candle |-> c]
Err(e)     == [kind |-> "Err", error |-> e]
Panic(m)   == [kind |-> "Panic", msg |-> m]
NotCalled  == [kind |-> "NotCalled"]

MergeEmpty == [type |-> "MergeEmpty"]
MergeTimestamp(index, a, b) == [type |-> "MergeTimestamp", index |-> index, a |-> a, b |-> b]
MergeTimeframe(index, a, b) == [type |-> "MergeTimeframe", index |-> index, a |-> a, b |-> b]

\* The local variables of merge before the loop (candle.rs 53-60).
merge_locals ==
    [timestamp |-> None, timeframe |-> None, sources |-> 0,
     open |-> Decimal_ZERO, high |-> Decimal_ZERO, low |-> Decimal_MAX,
     close |-> Decimal_ZERO, volume |-> Decimal_ZERO]

\* acc += price * volume
weighted_add(acc, price, volume) ==
    LET product == DecMul(price, volume)
    IN  IF product.ok THEN DecAdd(acc, product.v) ELSE product

\* accumulate counting each candle as one source.
accumulate_count(st, candle) ==
    LET volume  == DecAdd(st.volume, candle.volume)
        open    == weighted_add(st.open, candle.open, candle.volume)
        high    == weighted_add(st.high, candle.high, candle.volume)
        low     == weighted_add(st.low, candle.low, candle.volume)
        close   == weighted_add(st.close, candle.close, candle.volume)
    IN  IF ~volume.ok \/ ~open.ok \/ ~high.ok \/ ~low.ok \/ ~close.ok
        THEN [kind |-> "Return", outcome |-> Panic("Addition overflowed")]
        ELSE [kind |-> "Continue",
              st |-> [st EXCEPT !.sources = st.sources + 1, !.volume = volume.v,
                                !.open = open.v, !.high = high.v,
                                !.low = low.v, !.close = close.v]]

\* Lines 79-84: the accumulation of one candle.  The statements run in
\* order, so the first panic is the one that unwinds.
accumulate(st, candle) ==
    LET sources == st.sources + candle.sources
        volume  == DecAdd(st.volume, candle.volume)
        open    == weighted_add(st.open, candle.open, candle.volume)
        high    == weighted_add(st.high, candle.high, candle.volume)
        low     == weighted_add(st.low, candle.low, candle.volume)
        close   == weighted_add(st.close, candle.close, candle.volume)
    IN  IF ~volume.ok THEN [kind |-> "Return", outcome |-> Panic(volume.panic)]
        ELSE IF ~open.ok THEN [kind |-> "Return", outcome |-> Panic(open.panic)]
        ELSE IF ~high.ok THEN [kind |-> "Return", outcome |-> Panic(high.panic)]
        ELSE IF ~low.ok THEN [kind |-> "Return", outcome |-> Panic(low.panic)]
        ELSE IF ~close.ok THEN [kind |-> "Return", outcome |-> Panic(close.panic)]
        ELSE [kind |-> "Continue",
              st |-> [st EXCEPT !.sources = sources, !.volume = volume.v,
                                !.open = open.v, !.high = high.v,
                                !.low = low.v, !.close = close.v]]

\* Lines 63-77: the checks of one candle against the first one.  `index` is
\* the zero-based index enumerate() yields.
validate(st, index, candle) ==
    IF st.timestamp.some /\ st.timestamp.value # candle.timestamp
    THEN [kind |-> "Return",
          outcome |-> Err(MergeTimestamp(index, st.timestamp.value, candle.timestamp))]
    ELSE IF st.timeframe.some /\ st.timeframe.value # candle.timeframe
    THEN [kind |-> "Return",
          outcome |-> Err(MergeTimeframe(index, st.timeframe.value, candle.timeframe))]
    ELSE [kind |-> "Continue",
          st |-> [st EXCEPT !.timestamp = Some(candle.timestamp),
                            !.timeframe = Some(candle.timeframe)]]

\* The body of the for loop (lines 62-85) for one candle.
merge_body(st, index, candle) ==
    LET checked == validate(st, index, candle)
    IN  IF checked.kind = "Return" THEN checked ELSE accumulate(checked.st, candle)

\* The for loop from the candle at position i (one-based) on.
RECURSIVE merge_loop(_, _, _)
merge_loop(cs, i, st) ==
    IF i > Len(cs) THEN [kind |-> "Continue", st |-> st]
    ELSE LET step == merge_body(st, i - 1, cs[i])
         IN  IF step.kind = "Return" THEN step ELSE merge_loop(cs, i + 1, step.st)

\* Lines 87-106: the four divisions, then the match on (timestamp,
\* timeframe).
merge_finish(st) ==
    LET open  == DecDiv(st.open, st.volume)
        high  == DecDiv(st.high, st.volume)
        low   == DecDiv(st.low, st.volume)
        close == DecDiv(st.close, st.volume)
    IN  IF ~open.ok THEN Panic(open.panic)
        ELSE IF ~high.ok THEN Panic(high.panic)
        ELSE IF ~low.ok THEN Panic(low.panic)
        ELSE IF ~close.ok THEN Panic(close.panic)
        ELSE IF st.timestamp.some /\ st.timeframe.some
        THEN IF st.sources = 0
             THEN Panic("unwrap on None")
             ELSE Ok([timestamp |-> st.timestamp.value,
                      timeframe |-> st.timeframe.value,
                      sources |-> st.sources,
                      open |-> open.v, high |-> high.v, low |-> low.v,
                      close |-> close.v, volume |-> st.volume])
        ELSE Err(MergeEmpty)

\* Candle::merge
merge(cs) ==
    LET looped == merge_loop(cs, 1, merge_locals)
    IN  IF looped.kind = "Return" THEN looped.outcome ELSE merge_finish(looped.st)

\* The candles drawn: two timeframes, bucket-aligned timestamps, and the
\* price shapes without wicks (high and low are the extremes of open and
\* close), which keeps the four prices of a candle distinct fields with
\* low <= open, close <= high.  Candle puts no constraint on the sign of its
\* Decimal fields, so prices below zero are drawn as well.
MergeTimeframes == {"FiveMinutes", "OneHour"}

Max2(a, b) == IF a >= b THEN a ELSE b
Min2(a, b) == IF a <= b THEN a ELSE b

PriceShapes ==
    {[open |-> o, high |-> Max2(o, c), low |-> Min2(o, c), close |-> c] :
        o \in -MaxPrice..MaxPrice, c \in -MaxPrice..MaxPrice}

CandleSet ==
    {[timestamp |-> DURATION_5M * k, timeframe |-> tf, sources |-> n,
      open |-> Dec(p.open), high |-> Dec(p.high), low |-> Dec(p.low),
      close |-> Dec(p.close), volume |-> Dec(v)] :
        k \in 0..MaxStamp, tf \in MergeTimeframes, n \in 1..MaxSources,
        p \in PriceShapes, v \in 0..MaxVolume}

CandleSeqs == UNION {[1..n -> CandleSet] : n \in 0..MaxCandles}

NoMergeCall == [op |-> "none"]

Merge ==
    /\ merged = NotCalled
    /\ merged' = merge(candles)
    /\ UNCHANGED <<tcall, candles, mcall, dbVars, valueVars>>

\* The caller splits `candles` after position k, merges each part and, when
\* both merges return a candle, merges the two merged candles.
MergeMerged ==
    /\ merged # NotCalled
    /\ mcall = NoMergeCall
    /\ \E k \in 1..(Len(candles) - 1) :
          \E a \in {merge(SubSeq(candles, 1, k))},
             b \in {merge(SubSeq(candles, k + 1, Len(candles)))} :
              /\ a.kind = "Ok"
              /\ b.kind = "Ok"
              /\ mcall' = [op |-> "merge_merged", k |-> k,
                           input |-> <<a.candle, b.candle>>,
                           result |-> merge(<<a.candle, b.candle>>)]
    /\ UNCHANGED <<tcall, candles, merged, dbVars, valueVars>>

\* The caller merges the candles of `candles` once more, in another order.
MergePermuted ==
    /\ merged # NotCalled
    /\ mcall = NoMergeCall
    /\ Len(candles) >= 2
    /\ \E perm \in Permutations(1..Len(candles)) :
          LET input == [i \in 1..Len(candles) |-> candles[perm[i]]]
          IN  /\ input # candles
              /\ mcall' = [op |-> "merge_permuted", perm |-> perm,
                           input |-> input, result |-> merge(input)]
    /\ UNCHANGED <<tcall, candles, merged, dbVars, valueVars>>

InitMerge ==
    /\ IdleTime
    /\ IdleDb
    /\ IdleValue
    /\ candles \in CandleSeqs
    /\ merged = NotCalled
    /\ mcall = NoMergeCall

NextMerge ==
    \/ Merge
    \/ MergeMerged
    \/ MergePermuted

SpecMerge == InitMerge /\ [][NextMerge]_vars

(***************************************************************************)
(* Strings                                                                 *)
(*                                                                         *)
(* A string is the sequence of its characters, so that case conversion,    *)
(* prefix tests and formatting are computed and not assumed.               *)
(***************************************************************************)

LOWER == <<"a", "b", "c", "d", "e", "f", "g", "h", "i", "j", "k", "l", "m", "n", "o", "p", "q", "r", "s", "t", "u", "v", "w", "x", "y", "z">>
UPPER == <<"A", "B", "C", "D", "E", "F", "G", "H", "I", "J", "K", "L", "M", "N", "O", "P", "Q", "R", "S", "T", "U", "V", "W", "X", "Y", "Z">>
DIGITS == {"0", "1", "2", "3", "4", "5", "6", "7", "8", "9"}

Range_of(alphabet) == {alphabet[i] : i \in 1..Len(alphabet)}

\* The case mappings of the ASCII letters, as tables.
LowerOf == [c \in Range_of(UPPER) |-> LOWER[CHOOSE i \in 1..Len(UPPER) : UPPER[i] = c]]
UpperOf == [c \in Range_of(LOWER) |-> UPPER[CHOOSE i \in 1..Len(LOWER) : LOWER[i] = c]]

char_to_lowercase(c) == IF c \in DOMAIN LowerOf THEN LowerOf[c] ELSE c
char_to_uppercase(c) == IF c \in DOMAIN UpperOf THEN UpperOf[c] ELSE c

\* str::to_lowercase / str::to_uppercase on the characters used here.
to_lowercase(str) == [i \in 1..Len(str) |-> char_to_lowercase(str[i])]
to_uppercase(str) == [i \in 1..Len(str) |-> char_to_uppercase(str[i])]

\* str::starts_with
starts_with(str, prefix) ==
    Len(str) >= Len(prefix) /\ SubSeq(str, 1, Len(prefix)) = prefix

(***************************************************************************)
(* coin.rs: Coin                                                           *)
(***************************************************************************)

\* Display for Currency
Currency_to_string(currency) ==
    CASE currency = "USD" -> <<"U", "S", "D">>
      [] currency = "EUR" -> <<"E", "U", "R">>
      [] currency = "GBP" -> <<"G", "B", "P">>
      [] currency = "JPY" -> <<"J", "P", "Y">>

\* Coin::new
Coin_new(symbol, name, currency) ==
    [symbol |-> to_uppercase(symbol), name |-> name, currency |-> currency]

\* Coin::table_prefix
table_prefix == <<"c", "a", "n", "d", "l", "e", "s">>

\* table_name with the symbol written as the coin holds it.
table_name_keep_case(coin) ==
    table_prefix \o <<"_">> \o coin.symbol \o <<"_">>
        \o to_lowercase(Currency_to_string(coin.currency))

\* Coin::table_name: format!("{}_{}_{}", prefix, symbol, currency)
table_name(coin) ==
    table_prefix \o <<"_">> \o to_lowercase(coin.symbol) \o <<"_">>
        \o to_lowercase(Currency_to_string(coin.currency))

(***************************************************************************)
(* database/credentials.rs: Credentials                                    *)
(***************************************************************************)

\* deunicode of the characters used here.
unidecode(c) == IF c = "ü" THEN "u" ELSE c

\* The loop of slugify: keeps a-z and 0-9, turns every run of other
\* characters into one separator, and emits no leading separator.
RECURSIVE slug_loop(_, _, _, _, _)
slug_loop(str, i, sep, is_sep, slug) ==
    IF i > Len(str) THEN slug
    ELSE IF str[i] \in DOMAIN UpperOf \/ str[i] \in DIGITS
         THEN slug_loop(str, i + 1, sep, FALSE, Append(slug, str[i]))
         ELSE IF ~is_sep
              THEN slug_loop(str, i + 1, sep, TRUE, Append(slug, sep))
              ELSE slug_loop(str, i + 1, sep, TRUE, slug)

\* slugify!(str, separator = sep): transliterate, lower-case, run the
\* loop, drop a trailing separator.
slugify(str, sep) ==
    LET lowered == [i \in 1..Len(str) |-> char_to_lowercase(unidecode(str[i]))]
        slug    == slug_loop(lowered, 1, sep, TRUE, <<>>)
    IN  IF slug # <<>> /\ slug[Len(slug)] = sep
        THEN SubSeq(slug, 1, Len(slug) - 1)
        ELSE slug

\* The name of the variable built from the upper-cased username as it is.
envar_name_raw(username) ==
    <<"O", "H", "L", "C", "V", "_">> \o to_uppercase(username) \o <<"_", "P", "A", "S", "S", "W", "O", "R", "D">>

\* format!("OHLCV_{envar}_PASSWORD") of the upper-cased slug.
envar_name(username) ==
    <<"O", "H", "L", "C", "V", "_">> \o to_uppercase(slugify(username, "_")) \o <<"_", "P", "A", "S", "S", "W", "O", "R", "D">>

\* std::env::var(name).ok()
env_var(environment, name) ==
    IF name \in DOMAIN environment THEN Some(environment[name]) ELSE None

\* Credentials::new
Credentials_new(username, environment) ==
    [username |-> username, password |-> env_var(environment, envar_name(username))]

\* Credentials::with_password
with_password(creds, password) == [creds EXCEPT !.password = Some(password)]

\* try_from with the environment's password taken before the configured
\* one.
Credentials_try_from_env_first(cfg, environment) ==
    LET creds == Credentials_new(cfg.username, environment)
    IN  IF creds.password.some THEN [kind |-> "Ok", value |-> creds]
        ELSE IF cfg.password.some
        THEN [kind |-> "Ok", value |-> with_password(creds, cfg.password.value)]
        ELSE [kind |-> "Err", error |-> [type |-> "MissingPassword", user |-> creds.username]]

\* TryFrom<&mysql::DbConfig> / TryFrom<&postgres::DbConfig> for Credentials
\* (the two bodies are the same).
Credentials_try_from(cfg, environment) ==
    LET creds == Credentials_new(cfg.username, environment)
    IN  IF cfg.password.some
        THEN [kind |-> "Ok", value |-> with_password(creds, cfg.password.value)]
        ELSE IF creds.password.some THEN [kind |-> "Ok", value |-> creds]
        ELSE [kind |-> "Err", error |-> [type |-> "MissingPassword", user |-> creds.username]]

(***************************************************************************)
(* database: the engine as the backends see it                             *)
(*                                                                         *)
(* `tables` holds the names of the tables of the database (for PostgreSQL: *)
(* of the schema) the configuration addresses, written in lower case as    *)
(* table_name produces them.  A call is the only client of the database    *)
(* while it runs.  Which connection attempt or statement the engine        *)
(* rejects is an input of the call: io.open names the step of opening the  *)
(* database that fails ("ok" for none) and io.fail the number of the       *)
(* statement that fails (0 for none).                                      *)
(***************************************************************************)

\* Bound of the coin lists handed to init_schema / drop_schema.
MaxCoins == 2

Ok_unit == [kind |-> "Ok"]

SqlConnect(user)       == [type |-> "SqlConnect", user |-> user]
SqlCreateTable(table)  == [type |-> "SqlCreateTable", table |-> table]
SqlDropTable(table)    == [type |-> "SqlDropTable", table |-> table]
SqlSelect              == [type |-> "SqlSelect"]
MissingPassword(user)  == [type |-> "MissingPassword", user |-> user]

\* What a call does to the outside world, in order.
IoOpen(what, user)  == [io |-> what, user |-> user]
IoExecute(sql, table) == [io |-> "execute", sql |-> sql, table |-> table]
IoCreateTable(table, columns) ==
    [io |-> "execute", sql |-> "CREATE TABLE IF NOT EXISTS", table |-> table,
     columns |-> columns]
IoFetchAll(sql)     == [io |-> "fetch_all", sql |-> sql]

\* sqlx::query(..).execute(db) of the next statement: it is logged and
\* counted; the engine rejects it when it is statement number `fail`.
issue(st, event) == [st EXCEPT !.log = Append(@, event), !.n = @ + 1]

\* The rows of a catalog listing, in the order the engine returns them
\* (modelled as one fixed order).
RECURSIVE catalog(_)
catalog(names) ==
    IF names = {} THEN <<>>
    ELSE LET t == CHOOSE x \in names : TRUE
         IN  <<t>> \o catalog(names \ {t})

\* create_each with CREATE TABLE in place of CREATE TABLE IF NOT EXISTS: the
\* engine rejects the statement when the table exists.
RECURSIVE create_each_strict(_, _, _, _, _, _)
create_each_strict(coins, i, qualifier, columns, fail, st) ==
    IF i > Len(coins) THEN [st EXCEPT !.result = Ok_unit]
    ELSE LET table  == table_name(coins[i])
             issued == issue(st, IoCreateTable(qualifier \o table, columns))
         IN  IF issued.n = fail \/ table \in issued.tables
             THEN [issued EXCEPT !.result = Err(SqlCreateTable(table))]
             ELSE create_each_strict(coins, i + 1, qualifier, columns, fail,
                                     [issued EXCEPT !.tables = @ \cup {table}])

\* create_each going on to the next coin after a rejected statement and
\* returning the first error once the list is through.
RECURSIVE create_each_continue(_, _, _, _, _, _)
create_each_continue(coins, i, qualifier, columns, fail, st) ==
    IF i > Len(coins)
    THEN IF st.result.kind = "Err" THEN st ELSE [st EXCEPT !.result = Ok_unit]
    ELSE LET table  == table_name(coins[i])
             issued == issue(st, IoCreateTable(qualifier \o table, columns))
         IN  IF issued.n = fail
             THEN create_each_continue(coins, i + 1, qualifier, columns, fail,
                                       [issued EXCEPT !.result = Err(SqlCreateTable(table))])
             ELSE create_each_continue(coins, i + 1, qualifier, columns, fail,
                                       [issued EXCEPT !.tables = @ \cup {table}])

\* for coin in coins { CREATE TABLE IF NOT EXISTS {qualifier}{table} (columns) }
\* from the coin at position i on (mysql.rs 114-135, postgres.rs 121-141,
\* sqlite.rs 86-107).
RECURSIVE create_each(_, _, _, _, _, _)
create_each(coins, i, qualifier, columns, fail, st) ==
    IF i > Len(coins) THEN [st EXCEPT !.result = Ok_unit]
    ELSE LET table  == table_name(coins[i])
             issued == issue(st, IoCreateTable(qualifier \o table, columns))
         IN  IF issued.n = fail
             THEN [issued EXCEPT !.result = Err(SqlCreateTable(table))]
             ELSE create_each(coins, i + 1, qualifier, columns, fail,
                              [issued EXCEPT !.tables = @ \cup {table}])

\* drop_each with DROP TABLE in place of DROP TABLE IF EXISTS: the engine
\* rejects the statement when the table is absent.
RECURSIVE drop_each_strict(_, _, _, _, _)
drop_each_strict(coins, i, qualifier, fail, st) ==
    IF i > Len(coins) THEN [st EXCEPT !.result = Ok_unit]
    ELSE LET table  == table_name(coins[i])
             issued == issue(st, IoExecute("DROP TABLE", qualifier \o table))
         IN  IF issued.n = fail \/ table \notin issued.tables
             THEN [issued EXCEPT !.result = Err(SqlDropTable(table))]
             ELSE drop_each_strict(coins, i + 1, qualifier, fail,
                                   [issued EXCEPT !.tables = @ \ {table}])

\* for coin in coins { DROP TABLE IF EXISTS {qualifier}{table} }
\* (mysql.rs 151-160, postgres.rs 158-170, sqlite.rs 121-130).
RECURSIVE drop_each(_, _, _, _, _)
drop_each(coins, i, qualifier, fail, st) ==
    IF i > Len(coins) THEN [st EXCEPT !.result = Ok_unit]
    ELSE LET table  == table_name(coins[i])
             issued == issue(st, IoExecute("DROP TABLE IF EXISTS", qualifier \o table))
         IN  IF issued.n = fail
             THEN [issued EXCEPT !.result = Err(SqlDropTable(table))]
             ELSE drop_each(coins, i + 1, qualifier, fail,
                            [issued EXCEPT !.tables = @ \ {table}])

\* drop_listed without the starts_with test: every listed table is dropped.
RECURSIVE drop_listed_unfiltered(_, _, _, _, _)
drop_listed_unfiltered(rows, i, qualifier, fail, st) ==
    IF i > Len(rows) THEN [st EXCEPT !.result = Ok_unit]
    ELSE LET table  == rows[i]
             issued == issue(st, IoExecute("DROP TABLE IF EXISTS", qualifier \o table))
         IN  IF issued.n = fail
             THEN [issued EXCEPT !.result = Err(SqlDropTable(table))]
             ELSE drop_listed_unfiltered(rows, i + 1, qualifier, fail,
                                         [issued EXCEPT !.tables = @ \ {table}])

\* for table in tables { if table.starts_with(Coin::table_prefix()) { DROP
\* TABLE IF EXISTS {qualifier}{table} } } (mysql.rs 168-180, postgres.rs
\* 181-196, sqlite.rs 138-150).
RECURSIVE drop_listed(_, _, _, _, _)
drop_listed(rows, i, qualifier, fail, st) ==
    IF i > Len(rows) THEN [st EXCEPT !.result = Ok_unit]
    ELSE LET table == rows[i]
         IN  IF starts_with(table, table_prefix)
             THEN LET issued == issue(st, IoExecute("DROP TABLE IF EXISTS", qualifier \o table))
                  IN  IF issued.n = fail
                      THEN [issued EXCEPT !.result = Err(SqlDropTable(table))]
                      ELSE drop_listed(rows, i + 1, qualifier, fail,
                                       [issued EXCEPT !.tables = @ \ {table}])
             ELSE drop_listed(rows, i + 1, qualifier, fail, st)

\* The else branch of drop_schema: list the tables, then drop the listed
\* tables that carry the prefix.
drop_all(listing_sql, qualifier, fail, st) ==
    LET issued == issue(st, IoFetchAll(listing_sql))
    IN  IF issued.n = fail
        THEN [issued EXCEPT !.result = Err(SqlSelect)]
        ELSE drop_listed(catalog(issued.tables), 1, qualifier, fail, issued)

\* The state a call starts from.
call_state(db) ==
    [tables |-> db.tables, pool |-> db.pool, dbfile |-> db.dbfile,
     log |-> <<>>, n |-> 0, result |-> [kind |-> "Running"]]

(***************************************************************************)
(* database/mysql.rs                                                       *)
(***************************************************************************)

mysql_DEFAULT_ROOT == <<"r", "o", "o", "t">>

\* The columns of the CREATE TABLE statement of init_schema.
mysql_columns ==
    [time_stamp |-> "TIMESTAMP", time_frame |-> "ENUM('5m', '15m', '1h', '4h', '1d')",
     sources |-> "SMALLINT UNSIGNED",
     open |-> "DECIMAL(20, 10)", high |-> "DECIMAL(20, 10)", low |-> "DECIMAL(20, 10)",
     close |-> "DECIMAL(20, 10)", volume |-> "DECIMAL(20, 10)"]

\* DbConfig::root_username
mysql_root_username(cfg) ==
    IF cfg.root_username.some THEN cfg.root_username ELSE Some(mysql_DEFAULT_ROOT)

mysql_requires_credentials(cfg) == TRUE

\* connect with the connection attempt made before the password is looked
\* at.
mysql_connect_eager(cfg, creds, io, st) ==
    LET opened == [st EXCEPT !.log = Append(@, IoOpen("connect", creds.username))]
    IN  IF io.open = "connect"
        THEN [opened EXCEPT !.result = Err(SqlConnect(cfg.username))]
        ELSE IF creds.password.some THEN opened
        ELSE [opened EXCEPT !.result = Err(MissingPassword(creds.username))]

\* DbConfig::connect: the connection attempt is made only with a password.
mysql_connect(cfg, creds, io, st) ==
    IF creds.password.some
    THEN LET opened == [st EXCEPT !.log = Append(@, IoOpen("connect", creds.username))]
         IN  IF io.open = "connect"
             THEN [opened EXCEPT !.result = Err(SqlConnect(cfg.username))]
             ELSE opened
    ELSE [st EXCEPT !.result = Err(MissingPassword(creds.username))]

mysql_init_schema(cfg, environment, db, creds, coins, io) ==
    LET root  == mysql_root_username(cfg).value
        creds1 == IF creds.some THEN creds.value ELSE Credentials_new(root, environment)
        conn  == mysql_connect(cfg, creds1, io, call_state(db))
    IN  IF conn.result.kind = "Err" THEN conn
        ELSE create_each(coins, 1, <<>>, mysql_columns, io.fail, conn)

mysql_drop_schema(cfg, environment, db, creds, coins, io) ==
    LET root  == mysql_root_username(cfg).value
        creds1 == IF creds.some THEN creds.value ELSE Credentials_new(root, environment)
        conn  == mysql_connect(cfg, creds1, io, call_state(db))
    IN  IF conn.result.kind = "Err" THEN conn
        ELSE IF coins.some
             THEN drop_each(coins.value, 1, <<>>, io.fail, conn)
             ELSE drop_all("SHOW TABLES", <<>>, io.fail, conn)

(***************************************************************************)
(* database/postgres.rs                                                    *)
(***************************************************************************)

postgres_DEFAULT_ROOT == <<"p", "o", "s", "t", "g", "r", "e", "s">>

\* The columns of the CREATE TABLE statement of init_schema.
postgres_columns ==
    [time_stamp |-> "TIMESTAMP WITH TIME ZONE", time_frame |-> "VARCHAR(3)",
     sources |-> "SMALLINT",
     open |-> "DECIMAL(20, 10)", high |-> "DECIMAL(20, 10)", low |-> "DECIMAL(20, 10)",
     close |-> "DECIMAL(20, 10)", volume |-> "DECIMAL(20, 10)"]

\* DbConfig::schema
postgres_schema(cfg) == IF cfg.schema.some THEN cfg.schema.value ELSE <<"p", "u", "b", "l", "i", "c">>

postgres_root_username(cfg) ==
    IF cfg.root_username.some THEN cfg.root_username ELSE Some(postgres_DEFAULT_ROOT)

postgres_requires_credentials(cfg) == TRUE

postgres_connect(cfg, creds, io, st) ==
    IF creds.password.some
    THEN LET opened == [st EXCEPT !.log = Append(@, IoOpen("connect", creds.username))]
         IN  IF io.open = "connect"
             THEN [opened EXCEPT !.result = Err(SqlConnect(cfg.username))]
             ELSE opened
    ELSE [st EXCEPT !.result = Err(MissingPassword(creds.username))]

postgres_init_schema(cfg, environment, db, creds, coins, io) ==
    LET root  == postgres_root_username(cfg).value
        creds1 == IF creds.some THEN creds.value ELSE Credentials_new(root, environment)
        conn  == postgres_connect(cfg, creds1, io, call_state(db))
    IN  IF conn.result.kind = "Err" THEN conn
        ELSE create_each(coins, 1, postgres_schema(cfg) \o <<".">>, postgres_columns,
                         io.fail, conn)

postgres_drop_schema(cfg, environment, db, creds, coins, io) ==
    LET root  == postgres_root_username(cfg).value
        creds1 == IF creds.some THEN creds.value ELSE Credentials_new(root, environment)
        conn  == postgres_connect(cfg, creds1, io, call_state(db))
        qualifier == postgres_schema(cfg) \o <<".">>
    IN  IF conn.result.kind = "Err" THEN conn
        ELSE IF coins.some
             THEN drop_each(coins.value, 1, qualifier, io.fail, conn)
             ELSE drop_all("SELECT tablename FROM pg_catalog.pg_tables WHERE schemaname",
                           qualifier, io.fail, conn)

(***************************************************************************)
(* database/sqlite.rs                                                      *)
(***************************************************************************)

sqlite_DEFAULT_USER == <<"d", "e", "f", "a", "u", "l", "t", " ", "u", "s", "e", "r">>

\* The columns of the CREATE TABLE statement of init_schema.
sqlite_columns ==
    [time_stamp |-> "TIMESTAMP", time_frame |-> "TEXT", sources |-> "INTEGER",
     open |-> "REAL", high |-> "REAL", low |-> "REAL", close |-> "REAL",
     volume |-> "REAL"]

sqlite_root_username(cfg) == None

\* requires_credentials answering true.
sqlite_requires_credentials_always(cfg) == TRUE

sqlite_requires_credentials(cfg) == FALSE

\* DbConfig::db: look for the database file, create it when missing, open
\* and cache the pool when none is cached.
sqlite_db(cfg, io, st) ==
    LET looked == [st EXCEPT !.log = Append(@, IoOpen("database_exists", sqlite_DEFAULT_USER))]
        made   == [looked EXCEPT !.log = Append(@, IoOpen("create_database", sqlite_DEFAULT_USER))]
        ready  == IF looked.dbfile THEN looked ELSE [made EXCEPT !.dbfile = TRUE]
        opened == [ready EXCEPT !.log = Append(@, IoOpen("connect", sqlite_DEFAULT_USER))]
    IN  IF io.open = "database_exists"
        THEN [looked EXCEPT !.result = Err(SqlConnect(sqlite_DEFAULT_USER))]
        ELSE IF ~looked.dbfile /\ io.open = "create_database"
        THEN [made EXCEPT !.result = Err(SqlConnect(sqlite_DEFAULT_USER))]
        ELSE IF ready.pool.some THEN ready
        ELSE IF io.open = "connect"
        THEN [opened EXCEPT !.result = Err(SqlConnect(sqlite_DEFAULT_USER))]
        ELSE [opened EXCEPT !.pool = Some("pool")]

sqlite_init_schema(cfg, environment, db, creds, coins, io) ==
    LET conn == sqlite_db(cfg, io, call_state(db))
    IN  IF conn.result.kind = "Err" THEN conn
        ELSE create_each(coins, 1, <<>>, sqlite_columns, io.fail, conn)

sqlite_drop_schema(cfg, environment, db, creds, coins, io) ==
    LET conn == sqlite_db(cfg, io, call_state(db))
    IN  IF conn.result.kind = "Err" THEN conn
        ELSE IF coins.some
             THEN drop_each(coins.value, 1, <<>>, io.fail, conn)
             ELSE drop_all("SELECT name FROM sqlite_master WHERE type = 'table'",
                           <<>>, io.fail, conn)

(***************************************************************************)
(* database/dbtype.rs: DbType forwards to the variant's DbConfig           *)
(***************************************************************************)

DbType_root_username(cfg) ==
    CASE cfg.variant = "MySql"    -> mysql_root_username(cfg)
      [] cfg.variant = "Sqlite"   -> sqlite_root_username(cfg)
      [] cfg.variant = "Postgres" -> postgres_root_username(cfg)

DbType_requires_credentials(cfg) ==
    CASE cfg.variant = "MySql"    -> mysql_requires_credentials(cfg)
      [] cfg.variant = "Sqlite"   -> sqlite_requires_credentials(cfg)
      [] cfg.variant = "Postgres" -> postgres_requires_credentials(cfg)

\* Database::has_root (the trait's default body, which no backend overrides)
has_root(cfg) == DbType_root_username(cfg).some

DbType_init_schema(cfg, environment, db, creds, coins, io) ==
    CASE cfg.variant = "MySql"    -> mysql_init_schema(cfg, environment, db, creds, coins, io)
      [] cfg.variant = "Sqlite"   -> sqlite_init_schema(cfg, environment, db, creds, coins, io)
      [] cfg.variant = "Postgres" -> postgres_init_schema(cfg, environment, db, creds, coins, io)

DbType_drop_schema(cfg, environment, db, creds, coins, io) ==
    CASE cfg.variant = "MySql"    -> mysql_drop_schema(cfg, environment, db, creds, coins, io)
      [] cfg.variant = "Sqlite"   -> sqlite_drop_schema(cfg, environment, db, creds, coins, io)
      [] cfg.variant = "Postgres" -> postgres_drop_schema(cfg, environment, db, creds, coins, io)

(***************************************************************************)
(* The schema lifecycle: any sequence of init_schema / drop_schema calls   *)
(* on one DbType value                                                     *)
(***************************************************************************)

\* config.coins.iter().map(CoinConfig::as_coin): the coins of the
\* configuration file, in its order.
config_coins ==
    <<Coin_new(<<"b", "t", "c">>, "Bitcoin", "USD"), Coin_new(<<"E", "T", "H">>, "Ether", "EUR")>>

\* The configured coins, as a set.
ConfiguredCoins == {config_coins[i] : i \in 1..Len(config_coins)}

\* The coin lists handed in: the lists of distinct configured coins, in any
\* order, of at most MaxCoins coins.
CoinLists ==
    UNION {{cs \in [1..n -> ConfiguredCoins] :
                \A i \in 1..n, j \in 1..n : cs[i] = cs[j] => i = j} :
           n \in 0..MaxCoins}

\* Tables other programs keep in the same database: one without the
\* prefix, one whose name begins with the letters of the prefix.
SeedTables == {<<"u", "s", "e", "r", "s">>, <<"c", "a", "n", "d", "l", "e", "s", "t", "i", "c", "k", "s">>}

AppUser   == <<"a", "p", "p">>
AdminUser == <<"d", "b", "-", "a", "d", "m", "i", "n">>

Configs ==
    {[variant |-> v, username |-> AppUser, password |-> None,
      root_username |-> r, schema |-> None] :
        v \in {"MySql", "Postgres"}, r \in {None, Some(AdminUser)}}
    \cup {[variant |-> "Sqlite", username |-> <<>>, password |-> None,
           root_username |-> None, schema |-> None]}

\* The environment either holds the password of the root user or nothing.
Environments(cfg) ==
    IF DbType_root_username(cfg).some
    THEN {<<>>, (envar_name(DbType_root_username(cfg).value) :> "env-secret")}
    ELSE {<<>>}

\* The credentials a caller hands in: none, or the root user's with a
\* prompted password.
CredsInputs(cfg, environment) ==
    IF DbType_root_username(cfg).some
    THEN LET creds == Credentials_new(DbType_root_username(cfg).value, environment)
         IN  {None, Some(with_password(creds, "prompted"))}
    ELSE {None}

\* The steps of opening the database that can fail on a backend.
OpenSteps(cfg) ==
    IF cfg.variant = "Sqlite" THEN {"database_exists", "create_database", "connect"}
    ELSE {"connect"}

\* What the engine does to a call of `statements` statements: nothing
\* fails, opening fails at one step, or one statement fails.
IoInputs(cfg, statements) ==
    {[open |-> "ok", fail |-> k] : k \in 0..statements}
    \cup {[open |-> o, fail |-> 0] : o \in OpenSteps(cfg)}

NoDbCall == [op |-> "none"]

\* The engine rejects nothing.
NoFault == [open |-> "ok", fail |-> 0]

\* The record of a call: the command that made it ("none" for a call of
\* the library), its arguments, what the engine was set to do to it, the tables before it, what it did in order, and its result.  `again`
\* tells that the call repeats the arguments of the call before it and that
\* the call before it returned Ok.
record_call(cmd, op, creds, coins, io, st) ==
    [cmd |-> cmd, op |-> op, creds |-> creds, coins |-> coins, io |-> io,
     again |-> (/\ last.op = op
                /\ last.creds = creds
                /\ last.coins = coins
                /\ last.result = Ok_unit),
     before |-> tables, log |-> st.log, result |-> st.result]

InitSchema ==
    \E creds \in CredsInputs(config, env), coins \in CoinLists :
      \E io \in IoInputs(config, Len(coins)) :
        LET st == DbType_init_schema(config, env,
                      [tables |-> tables, pool |-> pool, dbfile |-> dbfile],
                      creds, coins, io)
        IN  /\ tables' = st.tables
            /\ pool' = st.pool
            /\ dbfile' = st.dbfile
            /\ last' = record_call("none", "init_schema", creds, Some(coins), io, st)
            /\ UNCHANGED <<config, env, timeVars, mergeVars, valueVars>>

DropSchema ==
    \E creds \in CredsInputs(config, env),
       coins \in {None} \cup {Some(cs) : cs \in CoinLists} :
      \E io \in IoInputs(config, IF coins.some THEN Len(coins.value) ELSE 1 + Cardinality(tables)) :
        LET st == DbType_drop_schema(config, env,
                      [tables |-> tables, pool |-> pool, dbfile |-> dbfile],
                      creds, coins, io)
        IN  /\ tables' = st.tables
            /\ pool' = st.pool
            /\ dbfile' = st.dbfile
            /\ last' = record_call("none", "drop_schema", creds, coins, io, st)
            /\ UNCHANGED <<config, env, timeVars, mergeVars, valueVars>>

(***************************************************************************)
(* ohlcv-ctl: the init and drop commands                                   *)
(***************************************************************************)

AskPassword(user) == [type |-> "AskPassword", user |-> user]

Ok_value(x) == [kind |-> "Ok", value |-> x]

\* What the user does at the password prompt: types a password, or aborts.
PromptedPassword == "prompted"
Prompts == {Some(PromptedPassword), None}

\* ask_password
ask_password(username, prompt) ==
    IF prompt.some THEN Ok_value(prompt.value) ELSE Err(AskPassword(username))

\* root_credentials handing on the credentials without asking for a
\* password the environment does not hold.
root_credentials_no_prompt(cfg, environment, prompt) ==
    IF DbType_root_username(cfg).some
    THEN Ok_value(Some(Credentials_new(DbType_root_username(cfg).value, environment)))
    ELSE Ok_value(None)

\* root_credentials
root_credentials(cfg, environment, prompt) ==
    IF DbType_root_username(cfg).some
    THEN LET username == DbType_root_username(cfg).value
             creds    == Credentials_new(username, environment)
             password == ask_password(username, prompt)
         IN  IF creds.password.some THEN Ok_value(Some(creds))
             ELSE IF password.kind = "Err" THEN password
             ELSE Ok_value(Some(with_password(creds, password.value)))
    ELSE Ok_value(None)

\* The record of a command that returned before calling the backend.
record_return(cmd, result) ==
    [cmd |-> cmd, op |-> "none", creds |-> None, coins |-> None, io |-> NoFault,
     again |-> FALSE, before |-> tables, log |-> <<>>, result |-> result]

\* init (ohlcv-ctl init)
CtlInit ==
    \E prompt \in Prompts, io \in IoInputs(config, Len(config_coins)) :
        LET creds == root_credentials(config, env, prompt)
            st    == DbType_init_schema(config, env,
                         [tables |-> tables, pool |-> pool, dbfile |-> dbfile],
                         creds.value, config_coins, io)
        IN  /\ UNCHANGED <<config, env, timeVars, mergeVars, valueVars>>
            /\ IF creds.kind = "Err"
               THEN /\ last' = record_return("init", creds)
                    /\ UNCHANGED <<tables, pool, dbfile>>
               ELSE /\ tables' = st.tables
                    /\ pool' = st.pool
                    /\ dbfile' = st.dbfile
                    /\ last' = record_call("init", "init_schema", creds.value,
                                           Some(config_coins), io, st)

\* drop (ohlcv-ctl drop [--all])
CtlDrop ==
    \E all \in BOOLEAN, prompt \in Prompts :
      \E io \in IoInputs(config, IF all THEN 1 + Cardinality(tables) ELSE Len(config_coins)) :
        LET creds == root_credentials(config, env, prompt)
            coins == IF all THEN None ELSE Some(config_coins)
            st    == DbType_drop_schema(config, env,
                         [tables |-> tables, pool |-> pool, dbfile |-> dbfile],
                         creds.value, coins, io)
        IN  /\ UNCHANGED <<config, env, timeVars, mergeVars, valueVars>>
            /\ IF creds.kind = "Err"
               THEN /\ last' = record_return("drop", creds)
                    /\ UNCHANGED <<tables, pool, dbfile>>
               ELSE /\ tables' = st.tables
                    /\ pool' = st.pool
                    /\ dbfile' = st.dbfile
                    /\ last' = record_call("drop", "drop_schema", creds.value, coins, io, st)

Init ==
    /\ IdleTime
    /\ IdleMerge
    /\ IdleValue
    /\ config \in Configs
    /\ env \in Environments(config)
    /\ dbfile \in (IF config.variant = "Sqlite" THEN BOOLEAN ELSE {TRUE})
    /\ pool = None
    /\ tables \in (IF dbfile THEN SUBSET SeedTables ELSE {{}})
    /\ last = NoDbCall

Next ==
    \/ InitSchema
    \/ DropSchema
    \/ CtlInit
    \/ CtlDrop

Spec == Init /\ [][Next]_vars

(***************************************************************************)
(* candle.rs, basetypes.rs: the comparisons of Candle and Timeframe        *)
(***************************************************************************)

\* Ord::cmp of two integers
int_cmp(a, b) == IF a < b THEN "Less" ELSE IF a > b THEN "Greater" ELSE "Equal"

\* #[derive(PartialEq)] for Timeframe
Timeframe_eq(a, b) == a = b

\* Ord for Timeframe
Timeframe_cmp(a, b) == int_cmp(duration(a), duration(b))

\* PartialOrd for Timeframe
Timeframe_partial_cmp(a, b) == Some(int_cmp(duration(a), duration(b)))

\* An equality over every field, as a derived PartialEq would be.
Candle_eq_all_fields(a, b) == a = b

\* PartialEq for Candle
Candle_eq(a, b) ==
    a.timestamp = b.timestamp /\ Timeframe_eq(a.timeframe, b.timeframe)

\* PartialOrd for Candle
Candle_partial_cmp(a, b) ==
    LET ordering == int_cmp(a.timestamp, b.timestamp)
    IN  IF ordering = "Equal"
        THEN Timeframe_partial_cmp(a.timeframe, b.timeframe)
        ELSE Some(ordering)

(***************************************************************************)
(* Calls of the value operations: Credentials::new and try_from in an      *)
(* environment set right before the call, the comparisons of two candles,  *)
(* Coin::new followed by table_name                                        *)
(***************************************************************************)

Usernames ==
    {<<"t", "e", "s", "t">>,
     <<"t", "e", "s", "t", "_", "u", "s", "e", "r">>,
     <<"t", "e", "s", "t", "-", "u", "s", "e", "r">>,
     <<"t", "e", "s", "t", "_", "u", "s", "e", "r", "_", "1">>,
     <<"t", "e", "s", "t", "-", "u", "s", "e", "r", "-", "1">>,
     <<"t", "e", "s", "t", "-", "ü", "s", "e", "r", "-", "1">>,
     <<"T", "e", "s", "t", " ", "U", "s", "e", "r">>,
     <<"t", "e", "s", "t", "-", "-", "u", "s", "e", "r">>}

\* The variables the environment may hold, each with a value of its own.
EnvVars ==
    (<<"O", "H", "L", "C", "V", "_", "T", "E", "S", "T", "_", "P", "A", "S", "S", "W", "O", "R", "D">> :> "password-1")
        @@ (<<"O", "H", "L", "C", "V", "_", "T", "E", "S", "T", "_", "U", "S", "E", "R", "_", "P", "A", "S", "S", "W", "O", "R", "D">> :> "password-2")
        @@ (<<"O", "H", "L", "C", "V", "_", "T", "E", "S", "T", "_", "U", "S", "E", "R", "_", "1", "_", "P", "A", "S", "S", "W", "O", "R", "D">> :> "password-3")
        @@ (<<"O", "H", "L", "C", "V", "_", "T", "E", "S", "T", "-", "U", "S", "E", "R", "_", "P", "A", "S", "S", "W", "O", "R", "D">> :> "password-4")

ValueEnvironments ==
    {[n \in names |-> EnvVars[n]] : names \in SUBSET DOMAIN EnvVars}

ConfiguredPassword == "configured"

ValueConfigs ==
    {[variant |-> v, username |-> u, password |-> pw,
      root_username |-> None, schema |-> None] :
        v \in {"MySql", "Postgres"}, u \in Usernames,
        pw \in {None, Some(ConfiguredPassword)}}

\* The candles compared: of every timeframe, with one price throughout.
CompareCandles ==
    {[timestamp |-> DURATION_5M * k, timeframe |-> tf, sources |-> n,
      open |-> Dec(p), high |-> Dec(p), low |-> Dec(p), close |-> Dec(p),
      volume |-> Dec(v)] :
        k \in 0..MaxStamp, tf \in Timeframes, n \in 1..MaxSources,
        p \in 0..MaxPrice, v \in 0..MaxVolume}

Symbols ==
    {<<"b", "t", "c">>, <<"B", "T", "C">>, <<"B", "t", "c">>, <<"b", "T", "c">>, <<"e", "t", "h">>, <<"E", "T", "H">>, <<"e", "T", "H">>, <<"x", "1">>}

CoinNames == {"Bitcoin", "Ether"}

Currencies == {"USD", "EUR", "GBP", "JPY"}

NoValueCall == [op |-> "none"]

CredentialsNew ==
    /\ vcall = NoValueCall
    /\ \E environment \in ValueEnvironments, username \in Usernames :
        /\ env' = environment
        /\ vcall' = [op |-> "new", username |-> username,
                     result |-> Credentials_new(username, environment)]
    /\ UNCHANGED <<config, dbfile, pool, tables, last, timeVars, mergeVars>>

CredentialsTryFrom ==
    /\ vcall = NoValueCall
    /\ \E environment \in ValueEnvironments, cfg \in ValueConfigs :
        /\ env' = environment
        /\ vcall' = [op |-> "try_from", config |-> cfg,
                     result |-> Credentials_try_from(cfg, environment)]
    /\ UNCHANGED <<config, dbfile, pool, tables, last, timeVars, mergeVars>>

CandleCompare ==
    /\ vcall = NoValueCall
    /\ \E a \in CompareCandles, b \in CompareCandles :
        vcall' = [op |-> "compare", a |-> a, b |-> b,
                  eq |-> Candle_eq(a, b), partial_cmp |-> Candle_partial_cmp(a, b)]
    /\ UNCHANGED <<dbVars, timeVars, mergeVars>>

CoinTableName ==
    /\ vcall = NoValueCall
    /\ \E symbol \in Symbols, name \in CoinNames, currency \in Currencies :
        vcall' = [op |-> "table_name", symbol |-> symbol, name |-> name,
                  currency |-> currency,
                  result |-> table_name(Coin_new(symbol, name, currency))]
    /\ UNCHANGED <<dbVars, timeVars, mergeVars>>

InitValue ==
    /\ IdleTime
    /\ IdleMerge
    /\ IdleDb
    /\ vcall = NoValueCall

NextValue ==
    \/ CredentialsNew
    \/ CredentialsTryFrom
    \/ CandleCompare
    \/ CoinTableName

SpecValue == InitValue /\ [][NextValue]_vars

(***************************************************************************)
(* Properties of the time-bucket arithmetic (checked under SpecTime)       *)
(***************************************************************************)

Aligned(tf, t) == t % duration(tf) = 0

\* C3: for every timeframe tf and every instant b that is a multiple of
\* tf's width from the epoch, round_up(tf, b) equals b itself.
C3_RoundUpOfBoundary ==
    (tcall.op = "round_up" /\ Aligned(tcall.tf, tcall.time))
        => tcall.result = tcall.time

\* C4: round_down(tf, t) is a multiple of tf's width from the epoch, is
\* <= t, and is the latest such bucket start (t - round_down(tf, t) < width),
\* also for instants before the epoch.
C4_RoundDown ==
    tcall.op = "round_down"
        => /\ Aligned(tcall.tf, tcall.result)
           /\ tcall.result <= tcall.time
           /\ tcall.time - tcall.result < duration(tcall.tf)

C4_Witness ==
    /\ tcall.op = "round_down"
    /\ tcall.time < UNIX_EPOCH
    /\ ~Aligned(tcall.tf, tcall.time)
    /\ tcall.result < tcall.time

\* C5: round_up(tf, t) is >= t and a multiple of tf's width from the epoch;
\* when t is not on a bucket boundary it equals round_down(tf, t) + width.
C5_RoundUp ==
    tcall.op = "round_up"
        => /\ tcall.result >= tcall.time
           /\ Aligned(tcall.tf, tcall.result)
           /\ (~Aligned(tcall.tf, tcall.time)
                 => tcall.result = round_down(tcall.tf, tcall.time) + duration(tcall.tf))

C5_Witness ==
    /\ tcall.op = "round_up"
    /\ ~Aligned(tcall.tf, tcall.time)
    /\ tcall.time < UNIX_EPOCH
    /\ tcall.result = round_down(tcall.tf, tcall.time) + duration(tcall.tf)

\* C6: Timeframe::range resolves an included start to round_down(start), an
\* excluded start to round_up(start), an included end to round_up(end), an
\* excluded end to round_down(end), an unbounded start to the Unix epoch and
\* an unbounded end to round_down(now).
C6_RangePolicy ==
    tcall.op = "range"
        => /\ tcall.start.kind = "Included"
                => tcall.result[1] = round_down(tcall.tf, tcall.start.time)
           /\ tcall.start.kind = "Excluded"
                => tcall.result[1] = round_up(tcall.tf, tcall.start.time)
           /\ tcall.start.kind = "Unbounded" => tcall.result[1] = UNIX_EPOCH
           /\ tcall.end.kind = "Included"
                => tcall.result[2] = round_up(tcall.tf, tcall.end.time)
           /\ tcall.end.kind = "Excluded"
                => tcall.result[2] = round_down(tcall.tf, tcall.end.time)
           /\ tcall.end.kind = "Unbounded"
                => tcall.result[2] = round_down(tcall.tf, tcall.now)

C6_Witness ==
    /\ tcall.op = "range"
    /\ tcall.start.kind = "Excluded"
    /\ tcall.end.kind = "Included"
    /\ ~Aligned(tcall.tf, tcall.start.time)
    /\ ~Aligned(tcall.tf, tcall.end.time)
    /\ tcall.result[1] > tcall.start.time
    /\ tcall.result[2] > tcall.end.time

\* A range call whose two bounds both carry an instant, the start instant
\* not after the end instant.
OrderedBounds ==
    /\ tcall.op = "range"
    /\ tcall.start.kind # "Unbounded"
    /\ tcall.end.kind # "Unbounded"
    /\ tcall.start.time <= tcall.end.time

\* Both bounds are excluded and their instants lie in the same bucket.
ExcludedInOneBucket ==
    /\ tcall.start.kind = "Excluded"
    /\ tcall.end.kind = "Excluded"
    /\ round_down(tcall.tf, tcall.start.time) = round_down(tcall.tf, tcall.end.time)

\* C26 as stated: for every timeframe and every pair of bounds whose start
\* instant is not after its end instant, in any inclusive/exclusive
\* combination, Timeframe::range returns a pair with start <= end.
C26_RangeOrdered ==
    OrderedBounds => tcall.result[1] <= tcall.result[2]

\* C26 as amended: for every timeframe and every pair of bounds whose start
\* instant is not after its end instant, Timeframe::range returns a pair
\* with start <= end, unless both bounds are excluded and the two instants
\* lie in the same bucket; in that case the returned start is one width
\* after the returned end.
C26_RangeOrderedUnlessExcludedInOneBucket ==
    OrderedBounds
        => IF ExcludedInOneBucket
           THEN tcall.result[1] = tcall.result[2] + duration(tcall.tf)
           ELSE tcall.result[1] <= tcall.result[2]

C26_Witness ==
    /\ OrderedBounds
    /\ tcall.start.kind = "Excluded"
    /\ tcall.end.kind = "Excluded"
    /\ ~Aligned(tcall.tf, tcall.start.time)
    /\ ~Aligned(tcall.tf, tcall.end.time)
    /\ ~ExcludedInOneBucket
    /\ tcall.result[1] = tcall.result[2]

\* C28: buckets nest across timeframes: for any two timeframes with
\* narrow <= wide and every instant t, round_down(wide, t) is not after
\* round_down(narrow, t), and rounding round_down(narrow, t) down to the
\* wide timeframe gives round_down(wide, t).
C28_BucketsNest ==
    tcall.op = "round_down"
        => \A wide \in Timeframes :
              Timeframe_cmp(tcall.tf, wide) # "Greater"
                  => /\ round_down(wide, tcall.time) <= tcall.result
                     /\ round_down(wide, tcall.result) = round_down(wide, tcall.time)

C28_Witness ==
    /\ tcall.op = "round_down"
    /\ tcall.tf = "Quarters"
    /\ ~Aligned("Quarters", tcall.time)
    /\ tcall.time > DURATION_4H
    /\ ~Aligned("FourHours", tcall.result)
    /\ round_down("OneDay", tcall.result) < round_down("FourHours", tcall.result)
    /\ round_down("FourHours", tcall.result) < tcall.result
    /\ C28_BucketsNest

(***************************************************************************)
(* Properties of Candle::merge (checked under SpecMerge)                   *)
(***************************************************************************)

Called == merged.kind # "NotCalled"

SameBucket(cs) ==
    \A i \in 1..Len(cs) :
        cs[i].timestamp = cs[1].timestamp /\ cs[i].timeframe = cs[1].timeframe

\* Sums over the input, as integers (inputs are integral).
RECURSIVE SumVolume(_)
SumVolume(cs) == IF cs = <<>> THEN 0 ELSE Head(cs).volume.num + SumVolume(Tail(cs))

RECURSIVE SumSources(_)
SumSources(cs) == IF cs = <<>> THEN 0 ELSE Head(cs).sources + SumSources(Tail(cs))

RECURSIVE SumWeighted(_, _)
SumWeighted(cs, field) ==
    IF cs = <<>> THEN 0
    ELSE Head(cs)[field].num * Head(cs).volume.num + SumWeighted(Tail(cs), field)

\* sum(price_i * volume_i) / sum(volume_i), for a non-zero total volume.
Vwap(cs, field) ==
    LET total == SumVolume(cs)
        sign  == IF total < 0 THEN -1 ELSE 1
    IN  Normalize(0, sign * SumWeighted(cs, field), Abs(total))

\* C1: merge over a non-empty same-bucket sequence with non-zero total
\* volume returns a candle whose open, high, low and close are each the
\* volume-weighted average of the corresponding input field.
C1_MergeIsVwap ==
    (Called /\ candles # <<>> /\ SameBucket(candles) /\ SumVolume(candles) # 0)
        => /\ merged.kind = "Ok"
           /\ merged.candle.open = Vwap(candles, "open")
           /\ merged.candle.high = Vwap(candles, "high")
           /\ merged.candle.low = Vwap(candles, "low")
           /\ merged.candle.close = Vwap(candles, "close")

\* C2: merge over an empty sequence returns Err(Error::MergeEmpty).
C2_MergeEmpty ==
    (Called /\ candles = <<>>) => merged = Err(MergeEmpty)

\* C7: for every successful merge, the result's volume is the plain sum of
\* the input volumes and its sources is the sum of the inputs' sources
\* counters (not the number of inputs).
C7_VolumeAndSources ==
    merged.kind = "Ok"
        => /\ merged.candle.volume = Dec(SumVolume(candles))
           /\ merged.candle.sources = SumSources(candles)

C7_Witness ==
    /\ merged.kind = "Ok"
    /\ Len(candles) = 2
    /\ candles[1].sources = 2
    /\ candles[1].volume # candles[2].volume
    /\ merged.candle.sources > Len(candles)
    /\ merged.candle.volume = Dec(SumVolume(candles))

\* C8: merge over exactly one candle returns a candle with the same
\* timestamp and timeframe whose open, high, low, close, volume and sources
\* equal that candle's values.
C8_MergeSingle ==
    (Called /\ Len(candles) = 1)
        => /\ merged.kind = "Ok"
           /\ merged.candle.timestamp = candles[1].timestamp
           /\ merged.candle.timeframe = candles[1].timeframe
           /\ merged.candle.open = candles[1].open
           /\ merged.candle.high = candles[1].high
           /\ merged.candle.low = candles[1].low
           /\ merged.candle.close = candles[1].close
           /\ merged.candle.volume = candles[1].volume
           /\ merged.candle.sources = candles[1].sources

Mismatch(cs, i) ==
    cs[i].timestamp # cs[1].timestamp \/ cs[i].timeframe # cs[1].timeframe

\* C9: merge fails on the first candle (in order) whose timestamp or
\* timeframe differs from the first candle's, with a timestamp-mismatch or
\* timeframe-mismatch error carrying that candle's (zero-based) index; no
\* candle after the offending one influences the outcome.
C9_FirstMismatch ==
    \A i \in 1..Len(candles) :
        (Called /\ Mismatch(candles, i) /\ \A j \in 1..(i - 1) : ~Mismatch(candles, j))
            => /\ merged.kind = "Err"
               /\ merged.error.type \in {"MergeTimestamp", "MergeTimeframe"}
               /\ merged.error.index = i - 1
               /\ merged = merge(SubSeq(candles, 1, i))

\* C23: for every non-empty same-bucket input whose volumes sum to zero,
\* merge returns a defined outcome (a candle or an error value) and does not
\* abort on the division by the total volume.
C23_ZeroVolumeDefined ==
    (Called /\ candles # <<>> /\ SameBucket(candles) /\ SumVolume(candles) = 0)
        => merged.kind \in {"Ok", "Err"}

\* C25: for same-bucket sequences A and B whose merges return candles,
\* merge([merge(A), merge(B)]) returns a candle with the same sources count
\* and the same volume as merge(A followed by B).
C25_MergedAccumulate ==
    (mcall.op = "merge_merged" /\ SameBucket(candles))
        => /\ mcall.result.kind = "Ok"
           /\ merged.kind = "Ok"
           /\ mcall.result.candle.sources = merged.candle.sources
           /\ mcall.result.candle.volume = merged.candle.volume

\* C27: for every same-bucket sequence on which merge succeeds, every
\* permutation of that sequence yields the same timestamp, timeframe,
\* sources, volume and prices.
C27_OrderIndependent ==
    (mcall.op = "merge_permuted" /\ SameBucket(candles) /\ merged.kind = "Ok")
        => mcall.result = merged

\* C29: when the candle at index i is the first to differ from the first
\* candle and differs in both timestamp and timeframe, merge reports the
\* timestamp mismatch for index i; every mismatch error carries the first
\* candle's value followed by the offending candle's value.
C29_TimestampBeforeTimeframe ==
    /\ \A i \in 1..Len(candles) :
          ( /\ Called
            /\ candles[i].timestamp # candles[1].timestamp
            /\ candles[i].timeframe # candles[1].timeframe
            /\ \A j \in 1..(i - 1) : ~Mismatch(candles, j) )
              => merged = Err(MergeTimestamp(i - 1, candles[1].timestamp,
                                             candles[i].timestamp))
    /\ (merged.kind = "Err" /\ merged.error.type = "MergeTimestamp")
          => /\ merged.error.a = candles[1].timestamp
             /\ merged.error.b = candles[merged.error.index + 1].timestamp
    /\ (merged.kind = "Err" /\ merged.error.type = "MergeTimeframe")
          => /\ merged.error.a = candles[1].timeframe
             /\ merged.error.b = candles[merged.error.index + 1].timeframe

(***************************************************************************)
(* Properties of the schema lifecycle (checked under Spec)                 *)
(***************************************************************************)

HasPrefix(table) == starts_with(table, table_prefix)

DropAllSucceeded ==
    /\ last.op = "drop_schema"
    /\ ~last.coins.some
    /\ last.result = Ok_unit

\* C10: on every backend, after any sequence of earlier init_schema /
\* drop_schema calls, a successful drop_schema without a coin list has
\* removed every table whose name starts with the reserved prefix and has
\* left every table without the prefix in place.
C10_DropAllKeepsForeignTables ==
    DropAllSucceeded
        => /\ \A t \in last.before : HasPrefix(t) => t \notin tables
           /\ \A t \in last.before : ~HasPrefix(t) => t \in tables
           /\ tables \subseteq last.before

C10_Witness ==
    /\ DropAllSucceeded
    /\ \E t \in last.before : ~HasPrefix(t) /\ t \in tables
    /\ \E c \in ConfiguredCoins : table_name(c) \in last.before /\ table_name(c) \notin tables
    /\ Cardinality({t \in last.before : HasPrefix(t)}) >= 2

\* The names of the tables of a coin list.
TableNames(coins) == {table_name(coins[i]) : i \in 1..Len(coins)}

\* The credentials a call connects with: the ones handed in, or the root
\* user's as Credentials::new resolves them.
UsedCreds ==
    IF last.creds.some THEN last.creds.value
    ELSE Credentials_new(DbType_root_username(config).value, env)

\* A password is resolved for the call, where the backend needs one.
PasswordResolved ==
    DbType_requires_credentials(config) => UsedCreds.password.some

DropListed == last.op = "drop_schema" /\ last.coins.some

\* C11: on every backend, a successful drop_schema with an explicit coin
\* list removes exactly the tables named by those coins' table_name and
\* leaves every other table, with or without the reserved prefix, as it
\* was; the call succeeds also when some of those tables are absent (it
\* fails only for a missing password or an engine rejection).
C11_DropListIsExact ==
    DropListed
        => /\ last.result = Ok_unit
                => tables = last.before \ TableNames(last.coins.value)
           /\ (last.io = NoFault /\ PasswordResolved) => last.result = Ok_unit

C11_Witness ==
    /\ DropListed
    /\ last.result = Ok_unit
    /\ Len(last.coins.value) = 2
    /\ \E t \in TableNames(last.coins.value) : t \in last.before /\ t \notin tables
    /\ \E t \in TableNames(last.coins.value) : t \notin last.before
    /\ \E t \in tables : HasPrefix(t)
    /\ \E t \in tables : ~HasPrefix(t)

\* C12: init_schema is idempotent: an init_schema that repeats the coin
\* list (and credentials) of a successful init_schema right before it
\* succeeds unless the engine rejects something, leaves the set of tables
\* unchanged, and every coin of the list has its table_name among the
\* tables.
C12_InitIdempotent ==
    (last.op = "init_schema" /\ last.again /\ last.io = NoFault)
        => /\ last.result = Ok_unit
           /\ tables = last.before
           /\ TableNames(last.coins.value) \subseteq tables

C12_Witness ==
    /\ last.op = "init_schema"
    /\ last.again
    /\ last.result = Ok_unit
    /\ Len(last.coins.value) = 2
    /\ Cardinality(TableNames(last.coins.value)) = 2
    /\ tables = last.before
    /\ TableNames(last.coins.value) \subseteq tables

\* C13: when the backend requires credentials and the identity a call of
\* init_schema or drop_schema connects with has no password, the call fails
\* with MissingPassword naming that identity, has attempted no connection
\* and no other I/O, and the tables are unchanged.
C13_MissingPasswordFirst ==
    (last.op \in {"init_schema", "drop_schema"}
        /\ DbType_requires_credentials(config)
        /\ ~UsedCreds.password.some)
        => /\ last.result = Err(MissingPassword(UsedCreds.username))
           /\ last.log = <<>>
           /\ tables = last.before
           /\ pool = None

C13_Witness ==
    /\ last.op \in {"init_schema", "drop_schema"}
    /\ DbType_requires_credentials(config)
    /\ ~UsedCreds.password.some
    /\ last.result = Err(MissingPassword(UsedCreds.username))
    /\ last.io.open = "connect"
    /\ last.log = <<>>
    /\ tables # {}

\* A command reached the backend.
CommandCalled == last.op # "none" /\ last.cmd \in {"init", "drop"}

\* C16: init and drop hand resolved root credentials to the backend exactly
\* when it reports a root username (MySql and Postgres) and hand it none
\* when it reports none (Sqlite); credentials handed on name the root user
\* and carry a password, the environment variable's value if it is set and
\* otherwise the prompted one.
C16_RootCredentialsInjected ==
    CommandCalled
        => /\ last.op = (IF last.cmd = "init" THEN "init_schema" ELSE "drop_schema")
           /\ last.creds.some <=> DbType_root_username(config).some
           /\ config.variant \in {"MySql", "Postgres"} => last.creds.some
           /\ config.variant = "Sqlite" => ~last.creds.some
           /\ last.creds.some
                => LET root   == DbType_root_username(config).value
                       looked == env_var(env, envar_name(root))
                   IN  /\ last.creds.value.username = root
                       /\ last.creds.value.password.some
                       /\ last.creds.value.password
                            = (IF looked.some THEN looked ELSE Some(PromptedPassword))

C16_Witness ==
    /\ CommandCalled
    /\ last.cmd = "init"
    /\ config.variant = "Postgres"
    /\ config.root_username.some
    /\ env = <<>>
    /\ last.creds = Some([username |-> AdminUser, password |-> Some(PromptedPassword)])
    /\ last.result = Ok_unit
    /\ tables # last.before

\* C19: for every backend variant, and for DbType forwarding to it,
\* requires_credentials() being true implies that root_username() returns a
\* username and that has_root() is true.
C19_CredentialsImplyRoot ==
    /\ DbType_requires_credentials(config)
            => DbType_root_username(config).some /\ has_root(config)
    /\ (config.variant = "MySql" /\ mysql_requires_credentials(config))
            => mysql_root_username(config).some
    /\ (config.variant = "Postgres" /\ postgres_requires_credentials(config))
            => postgres_root_username(config).some
    /\ (config.variant = "Sqlite" /\ sqlite_requires_credentials(config))
            => sqlite_root_username(config).some

C19_Witness ==
    /\ DbType_requires_credentials(config)
    /\ ~config.root_username.some
    /\ has_root(config)
    /\ last.op = "init_schema"
    /\ ~last.creds.some
    /\ \E i \in 1..Len(last.log) :
            last.log[i] = IoOpen("connect", DbType_root_username(config).value)

\* The CREATE TABLE statements a call issued.
Created == {i \in 1..Len(last.log) : last.log[i].io = "execute"
                                    /\ last.log[i].sql = "CREATE TABLE IF NOT EXISTS"}

\* C20: on all three backends, every table init_schema creates declares
\* open, high, low, close and volume as fixed-point decimal columns of
\* precision 20 and scale 10, never as a binary floating-point type.
C20_DecimalColumns ==
    last.op = "init_schema"
        => \A i \in Created :
              \A column \in {"open", "high", "low", "close", "volume"} :
                  last.log[i].columns[column] = "DECIMAL(20, 10)"

\* A call that works through a coin list.
ListCall == last.op \in {"init_schema", "drop_schema"} /\ last.coins.some

IsExecute(event) == event.io = "execute"

\* The statements the call issued, in order.
Executed == SelectSeq(last.log, IsExecute)

\* The qualifier the backend writes before a table name.
Qualifier ==
    IF config.variant = "Postgres" THEN postgres_schema(config) \o <<".">> ELSE <<>>

\* The tables of the first n coins of the call's list.
TablesUpTo(n) == {table_name(last.coins.value[i]) : i \in 1..n}

\* C21: within one init_schema or drop_schema call over a coin list the
\* statements are issued one per coin in the list's order; when the
\* statement for the k-th table is rejected the call returns that table's
\* error, the tables before it stay created/dropped, and no statement is
\* issued for a table after it.
C21_SequentialNoRollback ==
    ListCall
        => LET coins == last.coins.value
               n     == Len(Executed)
           IN  /\ n <= Len(coins)
               /\ \A i \in 1..n :
                     Executed[i].table = Qualifier \o table_name(coins[i])
               /\ last.result = Ok_unit => n = Len(coins)
               /\ (last.io.open = "ok" /\ last.io.fail \in 1..Len(coins) /\ PasswordResolved)
                     => /\ n = last.io.fail
                        /\ last.result =
                              Err(IF last.op = "init_schema"
                                  THEN SqlCreateTable(table_name(coins[n]))
                                  ELSE SqlDropTable(table_name(coins[n])))
                        /\ tables = IF last.op = "init_schema"
                                    THEN last.before \cup TablesUpTo(n - 1)
                                    ELSE last.before \ TablesUpTo(n - 1)

C21_Witness ==
    /\ ListCall
    /\ last.op = "init_schema"
    /\ Len(last.coins.value) = 2
    /\ last.io.fail = 2
    /\ Len(Executed) = 2
    /\ last.result = Err(SqlCreateTable(table_name(last.coins.value[2])))
    /\ table_name(last.coins.value[1]) \in tables \ last.before
    /\ table_name(last.coins.value[2]) \notin tables

\* The call opened a connection pool.
OpenedPool ==
    \E i \in 1..Len(last.log) : last.log[i].io = "connect"

\* C22: the connection pool of a configuration is absent before the first
\* operation, is cached by an operation that succeeds, and a call after a
\* successful call reuses the cached pool and opens no new one.
C22_PoolCreatedOnce ==
    /\ last = NoDbCall => ~pool.some
    /\ (last.op # "none" /\ last.result = Ok_unit) => pool.some
    /\ (last.op # "none" /\ last.again) => ~OpenedPool

\* C24: when connecting fails during init_schema or drop_schema, the
\* SqlConnect error returned carries the username of the identity whose
\* connection was attempted.
C24_ConnectErrorNamesUser ==
    (last.op # "none" /\ last.result.kind = "Err" /\ last.result.error.type = "SqlConnect")
        => /\ last.log # <<>>
           /\ last.result.error.user = last.log[Len(last.log)].user

DropAll == last.op = "drop_schema" /\ ~last.coins.some

\* The names of the form Coin::table_name produces: the prefix, an
\* underscore, a symbol, an underscore and a currency in lower case.
HasTableNameForm(table) ==
    /\ starts_with(table, table_prefix \o <<"_">>)
    /\ Len(table) >= Len(table_prefix) + 6
    /\ \E currency \in Currencies :
          SubSeq(table, Len(table) - 3, Len(table))
              = <<"_">> \o to_lowercase(Currency_to_string(currency))

\* C30 as stated: drop_schema with no coin list drops only tables whose
\* name has the form produced by Coin::table_name; a table whose name
\* merely begins with the letters of the prefix is left in place.
C30_DropAllOnlyTableNames ==
    DropAll => \A t \in last.before : ~HasTableNameForm(t) => t \in tables

\* C30 as amended: drop_schema with no coin list, whatever it returns,
\* drops only tables whose name begins with the reserved prefix; when it
\* succeeds it has dropped also the tables whose name begins with the
\* letters of the prefix without having the form produced by
\* Coin::table_name.
C30_DropAllOnlyPrefixed ==
    DropAll
        => /\ \A t \in last.before : ~HasPrefix(t) => t \in tables
           /\ last.result = Ok_unit
                => \A t \in last.before :
                      (HasPrefix(t) /\ ~HasTableNameForm(t)) => t \notin tables

C30_Witness ==
    /\ DropAll
    /\ last.result = Ok_unit
    /\ \E t \in last.before : HasPrefix(t) /\ ~HasTableNameForm(t) /\ t \notin tables
    /\ \E t \in last.before : HasTableNameForm(t) /\ t \notin tables
    /\ \E t \in last.before : ~HasPrefix(t) /\ t \in tables

(***************************************************************************)
(* Properties of the value operations (checked under SpecValue)            *)
(***************************************************************************)

\* The variable Credentials::new looks up for the configured username.
LookedUp == env_var(env, envar_name(vcall.config.username))

\* C14: credentials derived from a backend configuration take the
\* configured password even when the environment variable is set, the
\* environment variable's value when no password is configured, and are
\* the MissingPassword error naming the username when neither exists.
C14_ResolutionOrder ==
    vcall.op = "try_from"
        => /\ vcall.config.password.some
                => vcall.result = Ok_value([username |-> vcall.config.username,
                                            password |-> vcall.config.password])
           /\ (~vcall.config.password.some /\ LookedUp.some)
                => vcall.result = Ok_value([username |-> vcall.config.username,
                                            password |-> LookedUp])
           /\ (~vcall.config.password.some /\ ~LookedUp.some)
                => vcall.result = Err(MissingPassword(vcall.config.username))

C14_Witness ==
    /\ vcall.op = "try_from"
    /\ vcall.config.password = Some(ConfiguredPassword)
    /\ LookedUp.some
    /\ LookedUp # vcall.config.password
    /\ vcall.result.kind = "Ok"
    /\ vcall.result.value.password = Some(ConfiguredPassword)

IsAlphanumeric(c) == c \in Range_of(LOWER) \cup Range_of(UPPER) \cup DIGITS

RECURSIVE Flatten(_)
Flatten(pieces) == IF pieces = <<>> THEN <<>> ELSE Head(pieces) \o Flatten(Tail(pieces))

\* The normalized key of a username: its letters and digits upper-cased,
\* every run of other characters between two of them written as one
\* underscore.
NormalizedKey(username) ==
    LET chars == [i \in 1..Len(username) |-> unidecode(username[i])]
        piece(i) ==
            IF IsAlphanumeric(chars[i]) THEN <<char_to_uppercase(chars[i])>>
            ELSE IF /\ i > 1
                    /\ IsAlphanumeric(chars[i - 1])
                    /\ \E j \in (i + 1)..Len(chars) : IsAlphanumeric(chars[j])
                 THEN <<"_">>
                 ELSE <<>>
    IN  Flatten([i \in 1..Len(chars) |-> piece(i)])

KeyVariable(username) ==
    <<"O", "H", "L", "C", "V", "_">> \o NormalizedKey(username) \o <<"_", "P", "A", "S", "S", "W", "O", "R", "D">>

\* C15: Credentials::new reads the variable OHLCV_<KEY>_PASSWORD of the
\* username's normalized key, so any two usernames with the same key
\* resolve to the same password, and each keeps its own username.
C15_SameKeySamePassword ==
    vcall.op = "new"
        => /\ vcall.result.username = vcall.username
           /\ vcall.result.password = env_var(env, KeyVariable(vcall.username))
           /\ \A other \in Usernames :
                  NormalizedKey(other) = NormalizedKey(vcall.username)
                      => /\ Credentials_new(other, env).password = vcall.result.password
                         /\ Credentials_new(other, env).username = other

C15_Witness ==
    /\ vcall.op = "new"
    /\ vcall.username = <<"t", "e", "s", "t", "-", "u", "s", "e", "r">>
    /\ <<"O", "H", "L", "C", "V", "_", "T", "E", "S", "T", "-", "U", "S", "E", "R", "_", "P", "A", "S", "S", "W", "O", "R", "D">> \in DOMAIN env
    /\ vcall.result.password = Some("password-2")
    /\ Credentials_new(<<"t", "e", "s", "t", "_", "u", "s", "e", "r">>, env)
            = [username |-> <<"t", "e", "s", "t", "_", "u", "s", "e", "r">>, password |-> Some("password-2")]

\* C17: two candles are equal iff they have the same timestamp and the
\* same timeframe, whatever their sources, prices and volume; they are
\* ordered by timestamp first and by timeframe duration second, and compare
\* as Equal exactly when they are equal.
C17_CandleIdentity ==
    vcall.op = "compare"
        => LET a == vcall.a
               b == vcall.b
           IN  /\ vcall.eq <=> (a.timestamp = b.timestamp /\ a.timeframe = b.timeframe)
               /\ a.timestamp < b.timestamp => vcall.partial_cmp = Some("Less")
               /\ a.timestamp > b.timestamp => vcall.partial_cmp = Some("Greater")
               /\ a.timestamp = b.timestamp
                    => /\ duration(a.timeframe) < duration(b.timeframe)
                            => vcall.partial_cmp = Some("Less")
                       /\ duration(a.timeframe) > duration(b.timeframe)
                            => vcall.partial_cmp = Some("Greater")
                       /\ duration(a.timeframe) = duration(b.timeframe)
                            => vcall.partial_cmp = Some("Equal")
               /\ (vcall.partial_cmp = Some("Equal")) <=> vcall.eq

C17_Witness ==
    /\ vcall.op = "compare"
    /\ vcall.eq
    /\ vcall.partial_cmp = Some("Equal")
    /\ vcall.a.sources # vcall.b.sources
    /\ vcall.a.open # vcall.b.open
    /\ vcall.a.volume # vcall.b.volume
    /\ vcall.a.timeframe = "FourHours"

\* C18: Coin::table_name returns the lower-case string
\* candles_<symbol>_<currency>: coins built from symbols that differ only
\* in letter case, with the same currency, get the same table name, and the
\* coin's name has no influence.
C18_TableNameIgnoresCase ==
    vcall.op = "table_name"
        => /\ vcall.result
                = <<"c", "a", "n", "d", "l", "e", "s", "_">>
                    \o to_lowercase(vcall.symbol) \o <<"_">>
                    \o to_lowercase(Currency_to_string(vcall.currency))
           /\ to_lowercase(vcall.result) = vcall.result
           /\ \A symbol \in Symbols, name \in CoinNames :
                  to_lowercase(symbol) = to_lowercase(vcall.symbol)
                      => table_name(Coin_new(symbol, name, vcall.currency)) = vcall.result

C18_Witness ==
    /\ vcall.op = "table_name"
    /\ vcall.symbol = <<"b", "T", "c">>
    /\ vcall.name = "Ether"
    /\ vcall.currency = "JPY"
    /\ vcall.result = <<"c", "a", "n", "d", "l", "e", "s", "_", "b", "t", "c", "_", "j", "p", "y">>
    /\ table_name(Coin_new(<<"B", "T", "C">>, "Bitcoin", "JPY")) = vcall.result

=============================================================================
